---- MODULE Spec2Model ----
(***************************************************************************)
(* Session-state machine of the xFLOWer chat front-end (src/app.py).       *)
(*                                                                         *)
(* Streamlit re-runs the whole script ("a render") on every interaction.   *)
(* st.session_state survives between renders of one browser session.  An  *)
(* exception raised by an external call ends the render; what was written  *)
(* to st.session_state before it stays written.                            *)
(*                                                                         *)
(* Three specifications:                                                   *)
(*   Spec     the program: renders of the script's main block;             *)
(*   SpecOps  the session operations called directly, one call (after any  *)
(*            number of resets) on any session state of bounded size;      *)
(*   SpecReset  the program with reset_chat_session wired to a control.    *)
(***************************************************************************)
EXTENDS Naturals, Sequences, FiniteSets, TLC

\* ------------------------------------------------------------- bounds
\* threads the assistant service creates in one run of the model
MaxThreads == 4
\* longest message log a direct call starts from
MaxMsgs == 2
\* text deltas one streamed run delivers at most
MaxDeltas == 2

\* ---------------------------------------------------------- constants
\* Python's None as the value of thread_id; thread identifiers are 1, 2, ...
None == 0

\* authentication_status as authenticator.login returns it
StatusTrue == "True"
StatusFalse == "False"
StatusNone == "None"
Statuses == {StatusTrue, StatusFalse, StatusNone}

\* what the user does with the login form in one render
Entries == {"valid", "wrong_password", "none"}

\* texts are sequences of words; the empty text is Python's "" (falsy)
NoInput == <<>>
Texts == {<<"Hello">>, <<"What", "is", "xFLOWer?">>}

\* the k-th text delta of a streamed reply
DeltaWords == <<"xFLOWer", "is", "a", "workflow", "tool", "for", "teams">>
Delta(k) == <<DeltaWords[k]>>

\* user-visible notices
ErrIncorrect == "Username/password is incorrect"
WarnEnter == "Irja be a felhasznalonevet es jelszavat!"
ErrThreadNone == "Thread ID is None. Starting a new chat session."
BeginMessage == "BEGIN_MESSAGE"
Exception == "exception"

VARIABLES
    session_state,          \* st.session_state: key -> value, of the chat keys
    auth_state,             \* the authenticator's stored authentication status
    logout,                 \* the authenticator's stored logout flag
    authentication_status,  \* main's local: what login returned in this render
    logout_clicked,         \* the logout control was clicked in this render
    form_entry,             \* what the user did with the login form in this render
    pc,                     \* "idle", or the external call the script waits in
    caller,                 \* who called start_new_chat_session / the turn
    user_input,             \* the input of this render's turn
    stream_text,            \* the deltas streamed so far in this turn
    next_thread,            \* threads the service has created
    svc_log,                \* the service calls of this render or call that returned
    calls,                  \* the service calls this render or call issued, in order
    posted,                 \* thread ids that received a user message, in order
    notices,                \* notices shown in this render
    view,                   \* what the main area shows
    displayed,              \* what display_chat_messages rendered
    turn_base,              \* messages when the turn was entered
    turn_thread,            \* thread_id when the user message was appended
    prev_messages,          \* messages when this render began
    outcome                 \* how the last render or call ended

vars == <<session_state, auth_state, logout, authentication_status,
          logout_clicked, form_entry, pc, caller, user_input, stream_text, next_thread,
          svc_log, calls, posted, notices, view, displayed, turn_base, turn_thread,
          prev_messages, outcome>>

authVars == <<auth_state, logout, authentication_status, logout_clicked,
              form_entry>>
svcVars == <<next_thread, svc_log, calls, posted>>
turnVars == <<user_input, stream_text, turn_base, turn_thread>>

\* ------------------------------------------------------ session state
\* attribute / item assignment: creates the key when it is missing
Set(ss, k, v) == (k :> v) @@ ss

\* 'start_chat' in st.session_state and st.session_state.start_chat
start_chat_of(ss) == IF "start_chat" \in DOMAIN ss THEN ss.start_chat ELSE FALSE
thread_id_of(ss) == IF "thread_id" \in DOMAIN ss THEN ss.thread_id ELSE None
messages_of(ss) == IF "messages" \in DOMAIN ss THEN ss.messages ELSE <<>>

Message(role, content) == [role |-> role, content |-> content]

\* setdefault: a key already present keeps its value
initialize_chat_variables(ss) ==
    ss @@ [start_chat |-> FALSE, thread_id |-> None, messages |-> <<>>]

\* variant: start_chat is set only once the thread exists
start_new_chat_session_begin_late(ss) == ss

\* start_new_chat_session up to the call of client.beta.threads.create()
start_new_chat_session_begin(ss) == Set(ss, "start_chat", TRUE)

\* variant: the message log is not cleared
start_new_chat_session_end_keeps_messages(ss, id) ==
    Set(Set(ss, "thread_id", id), "start_chat", TRUE)

\* variant: the new thread's id is not stored
start_new_chat_session_end_no_thread(ss, id) ==
    Set(Set(ss, "messages", <<>>), "start_chat", TRUE)

\* start_new_chat_session after the service returned the thread with this id
start_new_chat_session_end(ss, id) ==
    Set(Set(Set(ss, "thread_id", id), "messages", <<>>), "start_chat", TRUE)

\* variant: the message log survives the reset
reset_chat_session_keeps_messages(ss) ==
    Set(Set(ss, "start_chat", FALSE), "thread_id", None)

\* variant: thread_id survives the reset
reset_chat_session_keeps_thread(ss) ==
    Set(Set(ss, "messages", <<>>), "start_chat", FALSE)

reset_chat_session(ss) ==
    Set(Set(Set(ss, "messages", <<>>), "start_chat", FALSE), "thread_id", None)

\* variant: insert(0, ...) instead of append
append_message_front(ss, role, content) ==
    Set(ss, "messages", <<Message(role, content)>> \o ss.messages)

\* variant: the message is appended twice
append_message_twice(ss, role, content) ==
    Set(ss, "messages",
        Append(Append(ss.messages, Message(role, content)), Message(role, content)))

\* st.session_state.messages.append({"role": role, "content": content})
append_message(ss, role, content) ==
    Set(ss, "messages", Append(ss.messages, Message(role, content)))

\* the messages display_chat_messages renders, top to bottom
display_chat_messages(ss) == ss.messages

\* st.write_stream: the concatenation of the deltas, in the order received
RECURSIVE write_stream(_)
write_stream(deltas) ==
    IF deltas = <<>> THEN <<>>
    ELSE Head(deltas) \o write_stream(Tail(deltas))

\* ------------------------------------------------------ authentication
\* authenticator.login: a filled-in form is checked against the credentials,
\* otherwise the stored status (None at first, True while logged in) is returned
login(entry, stored) ==
    CASE entry = "valid" -> StatusTrue
      [] entry = "wrong_password" -> StatusFalse
      [] OTHER -> stored

\* variant: if authentication_status != False:
unlocked_unless_denied(status) == status # StatusFalse

\* if authentication_status:
unlocked(status) == status = StatusTrue

\* the notices of the two ifs on authentication_status == False / == None
login_notices(status) ==
    (IF status = StatusFalse THEN {ErrIncorrect} ELSE {})
        \cup (IF status = StatusNone THEN {WarnEnter} ELSE {})

\* ------------------------------------------------------------- Init
Init ==
    /\ session_state = [k \in {} |-> None]
    /\ auth_state = StatusNone
    /\ logout = FALSE
    /\ authentication_status = StatusNone
    /\ logout_clicked = FALSE
    /\ form_entry = "none"
    /\ pc = "idle"
    /\ caller = "none"
    /\ user_input = NoInput
    /\ stream_text = <<>>
    /\ next_thread = 0
    /\ svc_log = <<>>
    /\ calls = <<>>
    /\ posted = <<>>
    /\ notices = {}
    /\ view = "login"
    /\ displayed = <<>>
    /\ turn_base = <<>>
    /\ turn_thread = None
    /\ prev_messages = <<>>
    /\ outcome = "none"

\* ------------------------------------------------------ chat orchestrator
\* process_and_display_chat_interaction up to its first external call
process_and_display_chat_interaction(ss, input, shown, issued) ==
    LET ss1 == append_message(ss, "user", input) IN
    /\ user_input' = input
    /\ stream_text' = <<>>
    /\ turn_base' = ss.messages
    /\ turn_thread' = ss1.thread_id
    /\ outcome' = "running"
    /\ IF ss1.thread_id = None
       THEN /\ notices' = shown \cup {ErrThreadNone}
            /\ session_state' = start_new_chat_session_begin(ss1)
            /\ calls' = Append(issued, "create")
            /\ pc' = "create"
            /\ caller' = "recovery"
       ELSE /\ notices' = shown
            /\ session_state' = ss1
            /\ calls' = Append(issued, "post")
            /\ pc' = "post"
            /\ caller' = "turn"

\* handle_chat_interaction up to the first external call
handle_chat_interaction(ss, input, shown, issued) ==
    IF start_chat_of(ss)
    THEN /\ displayed' = display_chat_messages(ss)
         /\ view' = "chat"
         /\ IF input # NoInput
            THEN process_and_display_chat_interaction(ss, input, shown, issued)
            ELSE /\ session_state' = ss
                 /\ notices' = shown
                 /\ calls' = issued
                 /\ pc' = "idle"
                 /\ caller' = "none"
                 /\ outcome' = "rendered"
                 /\ user_input' = NoInput
                 /\ stream_text' = <<>>
                 /\ UNCHANGED <<turn_base, turn_thread>>
    ELSE /\ displayed' = <<>>
         /\ view' = "begin"
         /\ session_state' = ss
         /\ notices' = shown \cup {BeginMessage}
         /\ calls' = issued
         /\ pc' = "idle"
         /\ caller' = "none"
         /\ outcome' = "rendered"
         /\ user_input' = NoInput
         /\ stream_text' = <<>>
         /\ UNCHANGED <<turn_base, turn_thread>>

\* variant of the main block: no start_new_chat_session before the input is
\* handled (the chat starts only by an explicit start)
Main_without_start(entry, click, input) ==
    LET status == login(entry, auth_state) IN
    /\ pc = "idle"
    /\ authentication_status' = status
    /\ form_entry' = entry
    /\ prev_messages' = messages_of(session_state)
    /\ svc_log' = <<>>
    /\ UNCHANGED <<next_thread, posted>>
    /\ IF status = StatusTrue
       THEN /\ next_thread < MaxThreads
            /\ logout_clicked' = click
            /\ auth_state' = IF click THEN StatusNone ELSE StatusTrue
            /\ logout' = click
            /\ handle_chat_interaction(initialize_chat_variables(session_state),
                                       input, {}, <<>>)
       ELSE /\ logout_clicked' = FALSE
            /\ auth_state' = status
            /\ UNCHANGED <<logout, session_state, turn_base, turn_thread>>
            /\ notices' = login_notices(status)
            /\ calls' = <<>>
            /\ stream_text' = <<>>
            /\ displayed' = <<>>
            /\ view' = "login"
            /\ pc' = "idle"
            /\ caller' = "none"
            /\ user_input' = NoInput
            /\ outcome' = "locked"

\* variant of the main block: start_new_chat_session only while the session
\* has no thread yet
Main_starts_once(entry, click, input) ==
    LET status == login(entry, auth_state) IN
    /\ pc = "idle"
    /\ authentication_status' = status
    /\ form_entry' = entry
    /\ prev_messages' = messages_of(session_state)
    /\ svc_log' = <<>>
    /\ UNCHANGED <<next_thread, posted>>
    /\ IF status = StatusTrue
       THEN /\ next_thread < MaxThreads
            /\ logout_clicked' = click
            /\ auth_state' = IF click THEN StatusNone ELSE StatusTrue
            /\ logout' = click
            /\ IF thread_id_of(session_state) = None
               THEN /\ session_state' = start_new_chat_session_begin(
                                           initialize_chat_variables(session_state))
                    /\ notices' = {}
                    /\ calls' = <<"create">>
                    /\ stream_text' = <<>>
                    /\ displayed' = <<>>
                    /\ view' = "sidebar"
                    /\ pc' = "create"
                    /\ caller' = "main"
                    /\ user_input' = input
                    /\ outcome' = "running"
                    /\ UNCHANGED <<turn_base, turn_thread>>
               ELSE handle_chat_interaction(session_state, input, {}, <<>>)
       ELSE /\ logout_clicked' = FALSE
            /\ auth_state' = status
            /\ UNCHANGED <<logout, session_state, turn_base, turn_thread>>
            /\ notices' = login_notices(status)
            /\ calls' = <<>>
            /\ stream_text' = <<>>
            /\ displayed' = <<>>
            /\ view' = "login"
            /\ pc' = "idle"
            /\ caller' = "none"
            /\ user_input' = NoInput
            /\ outcome' = "locked"

\* ------------------------------------------------------------ main
\* One render of the main block up to the call of threads.create():
\* login, the two notices, and for a granted login the logout control,
\* initialize_chat_variables and the start of start_new_chat_session.
Main(entry, click, input) ==
    LET status == login(entry, auth_state) IN
    /\ pc = "idle"
    /\ authentication_status' = status
    /\ form_entry' = entry
    /\ prev_messages' = messages_of(session_state)
    /\ svc_log' = <<>>
    /\ stream_text' = <<>>
    /\ displayed' = <<>>
    /\ UNCHANGED <<next_thread, posted, turn_base, turn_thread>>
    /\ IF unlocked(status)
       THEN /\ next_thread < MaxThreads
            /\ logout_clicked' = click
            /\ auth_state' = IF click THEN StatusNone ELSE StatusTrue
            /\ logout' = click
            /\ session_state' = start_new_chat_session_begin(
                                    initialize_chat_variables(session_state))
            /\ notices' = {}
            /\ calls' = <<"create">>
            /\ view' = "sidebar"
            /\ pc' = "create"
            /\ caller' = "main"
            /\ user_input' = input
            /\ outcome' = "running"
       ELSE /\ logout_clicked' = FALSE
            /\ auth_state' = status
            /\ UNCHANGED <<logout, session_state>>
            /\ notices' = login_notices(status)
            /\ calls' = <<>>
            /\ view' = "login"
            /\ pc' = "idle"
            /\ caller' = "none"
            /\ user_input' = NoInput
            /\ outcome' = "locked"

\* a render while the login form is shown
LoginRender == \E entry \in Entries :
    /\ auth_state # StatusTrue
    /\ Main(entry, FALSE, NoInput)

\* a re-render of a logged-in session with no widget changed
Rerun ==
    /\ auth_state = StatusTrue
    /\ Main("none", FALSE, NoInput)

\* the render after a click on the sidebar's logout control
LogoutClick ==
    /\ auth_state = StatusTrue
    /\ Main("none", TRUE, NoInput)

\* the render after a submission in the chat input shown by the last render
ChatSubmit == \E x \in Texts :
    /\ auth_state = StatusTrue
    /\ view = "chat"
    /\ Main("none", FALSE, x)

\* ------------------------------------------------- assistant service
\* variant: no return after the recovery, the turn goes on to post the input
ThreadsCreateOk_falls_through ==
    LET id == next_thread + 1
        ss1 == start_new_chat_session_end(session_state, id)
    IN
    /\ pc = "create"
    /\ next_thread' = id
    /\ svc_log' = Append(svc_log, [op |-> "create", thread |-> id])
    /\ UNCHANGED <<authVars, posted, prev_messages>>
    /\ IF caller = "main"
       THEN handle_chat_interaction(ss1, user_input, notices, calls)
       ELSE /\ session_state' = ss1
            /\ pc' = IF caller = "recovery" THEN "post" ELSE "idle"
            /\ calls' = IF caller = "recovery" THEN Append(calls, "post") ELSE calls
            /\ outcome' = IF caller = "recovery" THEN "running" ELSE "started"
            /\ UNCHANGED <<caller, notices, view, displayed, turnVars>>

\* client.beta.threads.create() returns; start_new_chat_session completes and
\* its caller goes on
ThreadsCreateOk ==
    LET id == next_thread + 1
        ss1 == start_new_chat_session_end(session_state, id)
    IN
    /\ pc = "create"
    /\ next_thread' = id
    /\ svc_log' = Append(svc_log, [op |-> "create", thread |-> id])
    /\ UNCHANGED <<authVars, posted, prev_messages>>
    /\ IF caller = "main"
       THEN handle_chat_interaction(ss1, user_input, notices, calls)
       ELSE /\ session_state' = ss1
            /\ pc' = "idle"
            /\ outcome' = IF caller = "recovery" THEN "recovered" ELSE "started"
            /\ UNCHANGED <<calls, caller, notices, view, displayed, turnVars>>

\* client.beta.threads.messages.create(thread_id, role="user", content) returns
MessagesCreateOk ==
    /\ pc = "post"
    /\ svc_log' = Append(svc_log, [op |-> "post", thread |-> session_state.thread_id])
    /\ posted' = Append(posted, session_state.thread_id)
    /\ calls' = Append(calls, "run")
    /\ pc' = "run"
    /\ UNCHANGED <<session_state, authVars, caller, turnVars, next_thread,
                   notices, view, displayed, prev_messages, outcome>>

\* client.beta.threads.runs.create_and_stream(thread_id, ...) is entered
RunCreateOk ==
    /\ pc = "run"
    /\ svc_log' = Append(svc_log, [op |-> "run", thread |-> session_state.thread_id])
    /\ pc' = "stream"
    /\ UNCHANGED <<session_state, authVars, caller, turnVars, next_thread,
                   calls, posted, notices, view, displayed, prev_messages, outcome>>

\* variant: every delta is recorded in the log as it arrives
StreamDelta_appends ==
    /\ pc = "stream"
    /\ Len(stream_text) < MaxDeltas
    /\ stream_text' = Append(stream_text, Delta(Len(stream_text) + 1))
    /\ session_state' = append_message(session_state, "assistant",
                                       Delta(Len(stream_text) + 1))
    /\ UNCHANGED <<authVars, pc, caller, user_input, turn_base,
                   turn_thread, svcVars, notices, view, displayed,
                   prev_messages, outcome>>

\* st.write_stream renders the next text delta
StreamDelta ==
    /\ pc = "stream"
    /\ Len(stream_text) < MaxDeltas
    /\ stream_text' = Append(stream_text, Delta(Len(stream_text) + 1))
    /\ UNCHANGED <<session_state, authVars, pc, caller, user_input, turn_base,
                   turn_thread, svcVars, notices, view, displayed,
                   prev_messages, outcome>>

\* variant: the answer takes the place of the last message of the log
StreamDone_overwrites ==
    /\ pc = "stream"
    /\ session_state' = Set(session_state, "messages",
                            Append(SubSeq(session_state.messages, 1,
                                          Len(session_state.messages) - 1),
                                   Message("assistant", write_stream(stream_text))))
    /\ pc' = "idle"
    /\ outcome' = "turn_ok"
    /\ UNCHANGED <<authVars, caller, turnVars, svcVars, notices, view,
                   displayed, prev_messages>>

\* the stream is done: write_stream returns the full text, which is appended
StreamDone ==
    /\ pc = "stream"
    /\ session_state' = append_message(session_state, "assistant",
                                       write_stream(stream_text))
    /\ pc' = "idle"
    /\ outcome' = "turn_ok"
    /\ UNCHANGED <<authVars, caller, turnVars, svcVars, notices, view,
                   displayed, prev_messages>>

\* variant: a failed stream still records what was streamed so far
Raise_appends_partial ==
    /\ pc # "idle"
    /\ pc' = "idle"
    /\ outcome' = pc
    /\ notices' = notices \cup {Exception}
    /\ session_state' = IF pc = "stream"
                        THEN append_message(session_state, "assistant",
                                            write_stream(stream_text))
                        ELSE session_state
    /\ UNCHANGED <<authVars, caller, turnVars, svcVars, view, displayed,
                   prev_messages>>

\* variant: a failed post-message call is issued once more
Raise_retries ==
    /\ pc # "idle"
    /\ IF pc = "post" /\ Len(calls) < 3
       THEN /\ pc' = "post"
            /\ calls' = Append(calls, "post")
            /\ UNCHANGED <<outcome, notices>>
       ELSE /\ pc' = "idle"
            /\ outcome' = pc
            /\ notices' = notices \cup {Exception}
            /\ UNCHANGED calls
    /\ UNCHANGED <<session_state, authVars, caller, turnVars, next_thread,
                   svc_log, posted, view, displayed, prev_messages>>

\* variant: an error handler that resets the chat session on a failed call
Raise_resets ==
    /\ pc # "idle"
    /\ pc' = "idle"
    /\ outcome' = pc
    /\ notices' = notices \cup {Exception}
    /\ session_state' = reset_chat_session(session_state)
    /\ UNCHANGED <<authVars, caller, turnVars, svcVars, view, displayed,
                   prev_messages>>

\* the external call the script waits in raises: the exception ends the render
Raise ==
    /\ pc # "idle"
    /\ pc' = "idle"
    /\ outcome' = pc
    /\ notices' = notices \cup {Exception}
    /\ UNCHANGED <<session_state, authVars, caller, turnVars, svcVars, view,
                   displayed, prev_messages>>

Next ==
    \/ LoginRender
    \/ Rerun
    \/ LogoutClick
    \/ ChatSubmit
    \/ ThreadsCreateOk
    \/ MessagesCreateOk
    \/ RunCreateOk
    \/ StreamDelta
    \/ StreamDone
    \/ Raise

Spec == Init /\ [][Next]_vars

\* reset_chat_session() run between two renders, as the callback of a control
ResetCallback ==
    /\ pc = "idle"
    /\ DOMAIN session_state # {}
    /\ session_state' = reset_chat_session(session_state)
    /\ outcome' = "reset"
    /\ UNCHANGED <<authVars, pc, caller, turnVars, svcVars, notices, view,
                   displayed, prev_messages>>

NextReset ==
    \/ Next
    \/ ResetCallback

SpecReset == Init /\ [][NextReset]_vars

\* ------------------------------------------- direct calls (SpecOps)
\* the session states a direct call is applied to: no key set yet, or any
\* start_chat, any thread_id and any message log of up to MaxMsgs messages
SampleMessages == {Message("user", <<"Hello">>), Message("assistant", Delta(1))}
SampleLogs == UNION {[1..n -> SampleMessages] : n \in 0..MaxMsgs}
SessionStates ==
    {[k \in {} |-> None]}
        \cup {Set(Set(Set([k \in {} |-> None], "start_chat", sc), "thread_id", t),
                  "messages", m) :
                sc \in BOOLEAN, t \in {None, 1}, m \in SampleLogs}

InitOps ==
    /\ session_state \in SessionStates
    /\ auth_state = StatusTrue
    /\ logout = FALSE
    /\ authentication_status = StatusTrue
    /\ logout_clicked = FALSE
    /\ form_entry = "none"
    /\ pc = "idle"
    /\ caller = "none"
    /\ user_input = NoInput
    /\ stream_text = <<>>
    /\ next_thread = 1
    /\ svc_log = <<>>
    /\ calls = <<>>
    /\ posted = <<>>
    /\ notices = {}
    /\ view = "sidebar"
    /\ displayed = <<>>
    /\ turn_base = <<>>
    /\ turn_thread = None
    /\ prev_messages = messages_of(session_state)
    /\ outcome = "none"

\* a direct call starts from a state no call but reset_chat_session has acted on
CallFrame ==
    /\ pc = "idle"
    /\ outcome \in {"none", "reset"}
    /\ svc_log' = <<>>
    /\ prev_messages' = messages_of(session_state)
    /\ UNCHANGED <<authVars, next_thread, posted>>

\* start_new_chat_session(client) called on the current session state
CallStart ==
    /\ CallFrame
    /\ session_state' = start_new_chat_session_begin(session_state)
    /\ pc' = "create"
    /\ calls' = <<"create">>
    /\ caller' = "direct"
    /\ outcome' = "running"
    /\ notices' = {}
    /\ UNCHANGED <<view, displayed, turnVars>>

\* reset_chat_session() called on the current session state
CallReset ==
    /\ CallFrame
    /\ session_state' = reset_chat_session(session_state)
    /\ pc' = "idle"
    /\ calls' = <<>>
    /\ caller' = "direct"
    /\ outcome' = "reset"
    /\ notices' = {}
    /\ UNCHANGED <<view, displayed, turnVars>>

\* process_and_display_chat_interaction(x, ...) called on the current state;
\* with a key missing the first statement raises and nothing changes
CallProcess == \E x \in Texts :
    /\ CallFrame
    /\ {"messages", "thread_id"} \subseteq DOMAIN session_state
    /\ process_and_display_chat_interaction(session_state, x, {}, <<>>)
    /\ UNCHANGED <<view, displayed>>

\* handle_chat_interaction(...) called on the current state
CallHandle == \E input \in Texts \cup {NoInput} :
    /\ CallFrame
    /\ start_chat_of(session_state) =>
           {"messages", "thread_id"} \subseteq DOMAIN session_state
    /\ handle_chat_interaction(session_state, input, {}, <<>>)

NextOps ==
    \/ CallStart
    \/ CallReset
    \/ CallProcess
    \/ CallHandle
    \/ ThreadsCreateOk
    \/ MessagesCreateOk
    \/ RunCreateOk
    \/ StreamDelta
    \/ StreamDone
    \/ Raise

SpecOps == InitOps /\ [][NextOps]_vars

\* ------------------------------------------------- state functions
start_chat == start_chat_of(session_state)
thread_id == thread_id_of(session_state)
messages == messages_of(session_state)

\* the text the deltas streamed so far spell out
FullText == SubSeq(DeltaWords, 1, Len(stream_text))

IsPrefix(a, b) == Len(a) <= Len(b) /\ SubSeq(b, 1, Len(a)) = a

\* the operations of the service calls logged in this render or call
LoggedOps == {svc_log[i].op : i \in DOMAIN svc_log}

InTurn == pc \in {"post", "run", "stream"}

\* ------------------------------------------------------------ claims

\* C1 (Spec): a submission in a logged-in session whose service calls all
\* succeed ends with messages = [user message with the submitted content,
\* assistant message with the full streamed text], in that order, and
\* thread_id is, from the append of the user message to the append of the
\* assistant message, the one thread the turn started on.
C1_EndToEndTurn ==
    /\ (pc = "idle" /\ outcome = "turn_ok") =>
          /\ messages = <<Message("user", user_input),
                          Message("assistant", FullText)>>
          /\ user_input # NoInput
          /\ thread_id = turn_thread
    /\ InTurn => (thread_id = turn_thread /\ thread_id # None)

\* the spec's scenario: login render, then the submission of the question
C1_Witness ==
    /\ pc = "idle"
    /\ outcome = "turn_ok"
    /\ next_thread = 2
    /\ user_input = <<"What", "is", "xFLOWer?">>
    /\ Len(stream_text) = 2

\* C2 (Spec): in a render of a session that stayed logged in (no login form
\* filled in, no logout click), the messages the session held when the render
\* began are still in messages and are shown by display_chat_messages.
C2_MessagesPersist ==
    (view = "chat" /\ form_entry = "none" /\ ~logout_clicked) =>
        /\ IsPrefix(prev_messages, displayed)
        /\ IsPrefix(prev_messages, messages)

\* C3 (SpecOps): from any session state, when start_new_chat_session has
\* completed with a thread created, messages is empty, thread_id is the id of
\* the thread just created (not None) and start_chat is true.
C3_StartClears ==
    (pc = "idle" /\ outcome \in {"started", "recovered"}) =>
        /\ messages = <<>>
        /\ thread_id = next_thread
        /\ thread_id # None
        /\ thread_id = svc_log[Len(svc_log)].thread
        /\ start_chat = TRUE

C3_Witness ==
    /\ pc = "idle"
    /\ outcome = "started"
    /\ Len(prev_messages) = 2
    /\ thread_id = 2

\* C4 (SpecOps): a turn entered with thread_id set has appended, by the time
\* of its first service call and until the stream is done, exactly the user
\* message with the input and no assistant message; a turn that succeeds ends
\* with messages grown by exactly that user message and then one assistant
\* message.
C4_UserThenAssistant ==
    /\ InTurn => messages = Append(prev_messages, Message("user", user_input))
    /\ (pc = "idle" /\ outcome = "turn_ok") =>
          /\ Len(messages) = Len(prev_messages) + 2
          /\ IsPrefix(prev_messages, messages)
          /\ messages[Len(messages) - 1] = Message("user", user_input)
          /\ messages[Len(messages)].role = "assistant"

C4_Witness ==
    /\ pc = "idle"
    /\ outcome = "turn_ok"
    /\ user_input = <<"Hello">>
    /\ Len(prev_messages) = 2

\* C5 (SpecOps): a turn entered with thread_id unset shows the error, keeps
\* start_chat true, makes no post-message and no run call, and appends no
\* assistant message; when the thread creation of the recovery succeeds,
\* thread_id is the new thread's id (not None).
C5_Recovery ==
    /\ (caller = "recovery") =>
          /\ turn_thread = None
          /\ ErrThreadNone \in notices
          /\ start_chat = TRUE
          /\ LoggedOps \subseteq {"create"}
          /\ posted = <<>>
          /\ messages \in {<<>>, Append(prev_messages, Message("user", user_input))}
    /\ (caller = "recovery" /\ pc = "idle" /\ outcome = "recovered") =>
          /\ thread_id # None
          /\ thread_id = next_thread
    /\ (InTurn \/ outcome = "turn_ok") => turn_thread # None

C5_Witness ==
    /\ caller = "recovery"
    /\ pc = "idle"
    /\ outcome = "recovered"
    /\ Len(prev_messages) = 2

\* C6 (SpecOps): when the post-message call, the creation of the run or the
\* stream fails, messages is what it was when the turn began followed by the
\* user message of the turn: no assistant message, nothing earlier changed.
C6_FailureKeepsLog ==
    (pc = "idle" /\ outcome \in {"post", "run", "stream"}) =>
        /\ messages = Append(prev_messages, Message("user", user_input))
        /\ Exception \in notices

C6_Witness ==
    /\ pc = "idle"
    /\ outcome = "stream"
    /\ Len(stream_text) >= 1
    /\ Len(prev_messages) = 2

\* C7 (Spec): in every state the program reaches, start_chat true and
\* messages non-empty imply thread_id is not None.
C7_ThreadWhenMessages ==
    (start_chat /\ messages # <<>>) => thread_id # None

C7_Witness ==
    /\ start_chat
    /\ Len(messages) = 2
    /\ thread_id # None

\* C8 (SpecReset): in every state reached by renders, logins, logouts,
\* submissions, session starts and resets, messages empty and start_chat false
\* imply thread_id is None.
C8_NoThreadWhenIdle ==
    (messages = <<>> /\ ~start_chat) => thread_id = None

\* a session that was active and was reset
C8_Witness ==
    /\ messages = <<>>
    /\ ~start_chat
    /\ outcome = "reset"
    /\ next_thread >= 1

\* C9 (Spec): after a logout thread_id is None and messages is empty.
C9_LogoutResets ==
    (pc = "idle" /\ logout) => (thread_id = None /\ messages = <<>>)

\* C10 (Spec): a render whose login outcome is denied or pending ends at once,
\* leaves the session state as it was, creates no thread, makes no service
\* call and shows the login form with the notice of its outcome, the two
\* notices being different; a wrong password gives denied, no entry in a
\* fresh session gives pending.
C10_LockedRender ==
    [][(pc = "idle" /\ authentication_status' # StatusTrue) =>
          /\ session_state' = session_state
          /\ next_thread' = next_thread
          /\ svc_log' = <<>>
          /\ pc' = "idle"
          /\ view' = "login"
          /\ (authentication_status' = StatusFalse => notices' = {ErrIncorrect})
          /\ (authentication_status' = StatusNone => notices' = {WarnEnter})
          /\ ErrIncorrect # WarnEnter
          /\ (form_entry' = "wrong_password" => authentication_status' = StatusFalse)
          /\ (form_entry' = "none" /\ auth_state = StatusNone =>
                authentication_status' = StatusNone)]_vars

\* a denied login in a session that holds a thread from before a logout
C10_Witness ==
    /\ authentication_status = StatusFalse
    /\ form_entry = "wrong_password"
    /\ notices = {ErrIncorrect}
    /\ start_chat
    /\ thread_id # None

\* C11 (SpecOps): from any session state reset_chat_session yields
\* messages = [], thread_id = None, start_chat = false with the three keys
\* set, and a second reset changes nothing.
C11_Reset ==
    /\ [](outcome = "reset" =>
            session_state = [start_chat |-> FALSE, thread_id |-> None,
                             messages |-> <<>>])
    /\ [][(outcome = "reset" /\ outcome' = "reset") =>
            session_state' = session_state]_vars

\* the reset of an active session that held a thread and two messages
C11_Witness ==
    /\ outcome = "reset"
    /\ Len(prev_messages) = 2
    /\ messages = <<>>
    /\ thread_id = None
    /\ ~start_chat

\* C12 (SpecReset): a step that neither completes a session start (a thread
\* is created) nor is a reset leaves the old messages as a prefix of the new
\* ones, and a step that appends an assistant message appends it, alone,
\* right after the user message of the turn.
C12_AppendOnly ==
    [][/\ (next_thread' = next_thread /\ outcome' # "reset") =>
              IsPrefix(messages, messages')
       /\ (messages' # messages /\ messages' # <<>>
             /\ messages'[Len(messages')].role = "assistant") =>
              /\ messages # <<>>
              /\ messages' = Append(messages, messages'[Len(messages')])
              /\ messages[Len(messages)] = Message("user", user_input)]_vars

\* an answered turn: the user message, then its answer
C12_Witness ==
    /\ Len(messages) = 2
    /\ messages[1].role = "user"
    /\ messages[2] = Message("assistant", FullText)
    /\ stream_text # <<>>

\* the service calls that returned in this render, after the thread creation
TurnLog == SelectSeq(svc_log, LAMBDA c : c.op # "create")
Call(op, t) == [op |-> op, thread |-> t]
LastMessage == messages[Len(messages)]

\* C13 (Spec): in a turn the user message is appended first; then the input
\* is posted to the thread thread_id names; then the run is created on that
\* same thread; while the stream is in progress the last message is still the
\* user message; the assistant message, with the full streamed text, is there
\* only once the stream is done.
C13_TurnOrder ==
    /\ InTurn =>
          /\ LastMessage = Message("user", user_input)
          /\ \A i \in DOMAIN messages : messages[i].role # "assistant"
          /\ thread_id = turn_thread
    /\ pc = "post" => (TurnLog = <<>> /\ calls[Len(calls)] = "post")
    /\ pc = "run" =>
          (TurnLog = <<Call("post", thread_id)>> /\ calls[Len(calls)] = "run")
    /\ (pc = "stream" \/ (pc = "idle" /\ outcome = "turn_ok")) =>
          TurnLog = <<Call("post", turn_thread), Call("run", turn_thread)>>
    /\ (pc = "idle" /\ outcome = "turn_ok") =>
          /\ LastMessage = Message("assistant", FullText)
          /\ messages[Len(messages) - 1] = Message("user", user_input)

\* the stream is in progress: a delta has arrived, no assistant message yet
C13_Witness ==
    /\ pc = "stream"
    /\ Len(stream_text) = 1
    /\ LastMessage.role = "user"

\* C14 (Spec): whenever handle_chat_interaction has run in a render of a
\* logged-in user, start_chat was true: the main area shows the chat (history
\* and input box), never the begin message.
C14_AutoStart ==
    /\ view # "begin"
    /\ BeginMessage \notin notices
    /\ (pc = "idle" /\ outcome \in {"rendered", "turn_ok", "post", "run", "stream"}) =>
          (view = "chat" /\ start_chat /\ authentication_status = StatusTrue)
    /\ InTurn => (view = "chat" /\ start_chat)

\* the first render after a valid login: the chat is shown, nothing submitted
C14_Witness ==
    /\ pc = "idle"
    /\ outcome = "rendered"
    /\ form_entry = "valid"
    /\ view = "chat"
    /\ next_thread = 1

\* C15 (Spec): in the program, where reset_chat_session is called by
\* nothing, no step takes start_chat from true to false: not a logout, not a
\* denied or pending render, not a submission, not a failed service call.
C15_StaysActive ==
    [][start_chat => start_chat']_vars

\* a denied login after a logout, the session still active
C15_Witness ==
    /\ start_chat
    /\ logout
    /\ outcome = "locked"
    /\ authentication_status = StatusFalse

\* how many times this render or call issued the service call op
Issued(op) == Cardinality({i \in DOMAIN calls : calls[i] = op})

\* C16 (SpecOps): for one input at most one post-message call and at most
\* one run call are issued (and at most one thread creation); when a call
\* fails it is the last call issued; a turn that takes the recovery issues the
\* thread creation and nothing else.
C16_NoRetries ==
    /\ Issued("post") <= 1
    /\ Issued("run") <= 1
    /\ Issued("create") <= 1
    /\ (pc = "idle" /\ outcome \in {"create", "post", "run"}) =>
          calls[Len(calls)] = outcome
    /\ (pc = "idle" /\ outcome = "stream") => calls[Len(calls)] = "run"
    /\ (pc = "idle" /\ outcome = "post") => Issued("run") = 0
    /\ caller = "recovery" => calls = <<"create">>

\* the post-message call failed: it was issued once, no run was issued
C16_Witness ==
    /\ pc = "idle"
    /\ outcome = "post"
    /\ calls = <<"post">>
    /\ Exception \in notices

\* C17 (Spec): a render that handles an input has first created a thread,
\* and posts the input and runs the assistant on that thread; no thread
\* receives a second user message in the whole session.
C17_FreshThreadPerTurn ==
    /\ (InTurn \/ (pc = "idle" /\ outcome \in {"turn_ok", "post", "run", "stream"})) =>
          /\ calls[1] = "create"
          /\ svc_log[1].op = "create"
          /\ turn_thread = svc_log[1].thread
          /\ \A i \in DOMAIN svc_log : svc_log[i].thread = svc_log[1].thread
    /\ \A i, j \in DOMAIN posted : i < j => posted[i] < posted[j]

\* two answered submissions, on two threads
C17_Witness ==
    /\ pc = "idle"
    /\ outcome = "turn_ok"
    /\ Len(posted) = 2
    /\ posted[1] # posted[2]

\* C18 (Spec): in the program a turn is never entered with thread_id unset:
\* the recovery branch is not taken and its error is never shown, because the
\* render that enters the turn has created the thread thread_id names.
C18_RecoveryUnreachable ==
    /\ caller # "recovery"
    /\ ErrThreadNone \notin notices
    /\ caller = "turn" =>
          /\ turn_thread # None
          /\ svc_log # <<>>
          /\ svc_log[1] = Call("create", turn_thread)

\* a turn has been entered and waits in its post-message call
C18_Witness ==
    /\ pc = "post"
    /\ caller = "turn"
    /\ turn_thread = next_thread
    /\ user_input = <<"Hello">>

\* C19 (SpecOps): a turn entered with thread_id unset appends the user
\* message and, when it has returned from the recovery, messages is empty:
\* the message just submitted is not in the log.
C19_RecoveryDropsMessage ==
    /\ (caller = "recovery" /\ pc = "create") =>
          messages = Append(prev_messages, Message("user", user_input))
    /\ (caller = "recovery" /\ pc = "idle" /\ outcome = "recovered") =>
          /\ messages = <<>>
          /\ \A i \in DOMAIN messages : messages[i] # Message("user", user_input)
          /\ user_input # NoInput

\* returned from the recovery of a turn entered with one message in the log
C19_Witness ==
    /\ caller = "recovery"
    /\ pc = "idle"
    /\ outcome = "recovered"
    /\ Len(prev_messages) = 1
    /\ user_input = <<"Hello">>
    /\ messages = <<>>

\* C20 (Spec): when the thread creation of a render's start_new_chat_session
\* fails, start_chat is true, thread_id and messages are what they were before
\* the render (None and [] on a first page load), and handle_chat_interaction
\* has not run: no chat view, nothing displayed, no input handled.
C20_StartNotAtomic ==
    /\ []((pc = "idle" /\ outcome = "create") =>
            /\ start_chat
            /\ messages = prev_messages
            /\ (next_thread = 0 => (thread_id = None /\ messages = <<>>))
            /\ view = "sidebar"
            /\ displayed = <<>>
            /\ calls = <<"create">>
            /\ svc_log = <<>>)
    /\ [][((pc = "idle" /\ pc' = "create")
             \/ (pc = "create" /\ pc' = "idle" /\ outcome' = "create")) =>
            (thread_id' = thread_id /\ messages' = messages /\ start_chat')]_vars

\* the thread creation of the first page load after the login failed
C20_Witness ==
    /\ pc = "idle"
    /\ outcome = "create"
    /\ next_thread = 0
    /\ start_chat
    /\ thread_id = None
    /\ messages = <<>>

\* ------------------------------------------------------------- types
TypeOK ==
    /\ DOMAIN session_state \subseteq {"start_chat", "thread_id", "messages"}
    /\ start_chat_of(session_state) \in BOOLEAN
    /\ thread_id_of(session_state) \in 0..next_thread
    /\ auth_state \in Statuses
    /\ authentication_status \in Statuses
    /\ logout \in BOOLEAN
    /\ pc \in {"idle", "create", "post", "run", "stream"}
    /\ next_thread \in 0..MaxThreads
    /\ Len(stream_text) <= MaxDeltas
====
